---- MODULE Spec2Model ----
(***************************************************************************)
(* Model of geoip/geoip_ph.py: the GeoServer request handler.              *)
(*                                                                         *)
(* Text that the code takes apart (request lines, addresses, attribute     *)
(* values) is a sequence of one-character strings, so that strip, split,   *)
(* replace and upper are computed as Python computes them.  Text the code  *)
(* only emits (status lines, error messages) is a TLA+ string.             *)
(*                                                                         *)
(* GeoIP (module base) and statsd are collaborators that are not part of   *)
(* the file: the backend's answers are nondeterministic inputs of each     *)
(* call, and the metrics sink is a set of counters and a timer.            *)
(***************************************************************************)
EXTENDS Integers, Sequences, FiniteSets, TLC

VARIABLES geoip, statsd, requests, successes, failures, timerStarts,
          timerStops, calls, job, result, events, backend, before

vars == <<geoip, statsd, requests, successes, failures, timerStarts,
          timerStops, calls, job, result, events, backend, before>>

---------------------------------------------------------------------------
(* Bounds *)

\* number of process() calls in one behaviour of Spec
MaxCalls == 3

\* length of the text after the command in the request lines of SpecLines
MaxBody == 4

---------------------------------------------------------------------------
(* Python str operations *)

\* characters str.strip() removes
Whitespace == {" ", "\t", "\n", "\r"}

\* a byte that is not valid UTF-8 (a Latin-1 e-acute inside a Python 2 str)
RawByte == "xE9"

RECURSIVE LStrip(_)
LStrip(s) ==
    IF s # <<>> /\ Head(s) \in Whitespace THEN LStrip(Tail(s)) ELSE s

RECURSIVE RStrip(_)
RStrip(s) ==
    IF s # <<>> /\ s[Len(s)] \in Whitespace
    THEN RStrip(SubSeq(s, 1, Len(s) - 1))
    ELSE s

\* str.strip()
Strip(s) == RStrip(LStrip(s))

\* ch in s
Contains(s, ch) == \E i \in DOMAIN s : s[i] = ch

\* str.find(ch) + 1, for a string that contains ch
IndexOf(s, ch) == CHOOSE i \in DOMAIN s :
                      s[i] = ch /\ \A j \in 1..(i - 1) : s[j] # ch

\* str.split(sep): every occurrence of sep separates two fields
RECURSIVE Split(_, _)
Split(s, sep) ==
    IF ~Contains(s, sep) THEN <<s>>
    ELSE LET i == IndexOf(s, sep)
         IN  <<SubSeq(s, 1, i - 1)>> \o Split(SubSeq(s, i + 1, Len(s)), sep)

\* str.replace(ch, '')
Replace(s, ch) == SelectSeq(s, LAMBDA c : c # ch)

UpperChar(c) ==
    CASE c = "g" -> "G" [] c = "e" -> "E" [] c = "t" -> "T"
      [] c = "p" -> "P" [] c = "u" -> "U" [] c = "a" -> "A"
      [] c = "b" -> "B" [] c = "x" -> "X" [] c = "m" -> "M"
      [] c = "o" -> "O" [] c = "n" -> "N" [] c = "i" -> "I"
      [] c = "r" -> "R" [] OTHER -> c

\* str.upper()
Upper(s) == [i \in DOMAIN s |-> UpperChar(s[i])]

---------------------------------------------------------------------------
(* Literals of the code *)

Monitor == <<"m", "o", "n", "i", "t", "o", "r">>
GET == <<"G", "E", "T">>
MozillaOrg == <<"m", "o", "z", "i", "l", "l", "a", ".", "o", "r", "g">>
US == <<"U", "S">>

OK200 == "200 OK\n"
Error500 == "500 Error\n"
InvalidRequest == "Invalid request. Try \"GET addr\""
InvalidCommand == "Invalid command. Try \"GET addr\""
NoInformation == "No information for site"
UnknownException(msg) == "Unknown Exception \"" \o msg \o "\""

---------------------------------------------------------------------------
(* What a call produces *)

\* return "<text>"
StatusLine(t) == [kind |-> "status", text |-> t]
\* falling off the end of a function: return None
NoneValue == [kind |-> "none"]
\* "%s\n" % json.dumps({label: obj})
JsonLine(label, obj) == [kind |-> "json", json |-> (label :> obj), eol |-> "\n"]
\* an exception leaving the function
Raise(type, msg) == [kind |-> "raise", exc |-> type, msg |-> msg]

\* json.dumps of a Python 2 str decodes it as UTF-8
ValidUtf8(s) == \A i \in DOMAIN s : s[i] # RawByte

\* json.dumps({label: obj}) succeeds.  The error strings the code builds
\* are ASCII; a success mapping holds strings of the backend and the address.
Dumps(label, obj) ==
    IF label = "success" THEN \A k \in DOMAIN obj : ValidUtf8(obj[k]) ELSE TRUE

DecodeError == "'utf8' codec can't decode byte 0xe9"
NoGeoipAttr == "GeoServer instance has no attribute 'geoip'"
NoStripAttr == "'NoneType' object has no attribute 'strip'"

\* GeoServer._return
_return(label, obj) ==
    IF Dumps(label, obj)
    THEN JsonLine(label, obj)
    ELSE Raise("UnicodeDecodeError", DecodeError)

\* GeoServer._error
_error(errstr) == _return("error", errstr)

\* one step of a call: what it returns or raises, the instrumentation and
\* backend calls it made, in order
Frame(res, ev, be) == [result |-> res, events |-> ev, backend |-> be]

\* counter += 1: counts in the sink when there is one, else on a local int
Incr(sd, name) == IF sd THEN <<name>> ELSE <<>>

\* a call of the backend and what it answered
Call(fn, arg, out) == [fn |-> fn, arg |-> arg, out |-> out]

---------------------------------------------------------------------------
(* Inputs *)

\* GeoIP(path, cache): a handle, or GeoIPException
OpenOutcomes == {"handle", "GeoIPException"}

AttrKeys == {"city", "addr"}
AttrValues == {<<"M", "V">>, <<"M", RawByte>>}
Mappings == UNION {[D -> AttrValues] : D \in SUBSET AttrKeys}
ExcMessages == {"boom", "corrupt"}

\* geoip.city(addr): a mapping, None, or an exception
CityOutcomes ==
    {[kind |-> "none"]}
    \cup {[kind |-> "map", map |-> m] : m \in Mappings}
    \cup {[kind |-> "raise", msg |-> m] : m \in ExcMessages}

\* geoip.country_code('mozilla.org'): a code, None, or an exception
CountryOutcomes ==
    {[kind |-> "none"]}
    \cup {[kind |-> "code", code |-> c] : c \in {US, <<"C", "A">>}}
    \cup {[kind |-> "raise", msg |-> m] : m \in ExcMessages}

\* What the backend would answer during one call.  A call consults at most
\* one of the two functions, so only one of the answers varies at a time.
Answers ==
    {[country_code |-> c, city |-> [kind |-> "none"]] : c \in CountryOutcomes}
    \cup {[country_code |-> [kind |-> "none"], city |-> y] : y \in CityOutcomes}

Str(s) == [type |-> "str", chars |-> s]
\* a job whose data is not a string
NoneData == [type |-> "NoneType", chars |-> <<>>]

RequestLines ==
    { Monitor,
      Monitor \o <<"\n">>,
      <<" ">> \o Monitor \o <<"\n">>,
      Monitor \o <<" ", "\n">>,
      <<"M">> \o Tail(Monitor),
      Monitor \o <<" ", "x">>,
      <<"G", "E", "T", " ", "a", "\n">>,
      <<"g", "e", "t", " ", "a">>,
      <<"G", "e", "t", " ", "a", "/", "b", "\n">>,
      <<"G", "E", "T", " ", " ", "a">>,
      <<"G", "E", "T", " ", "a", "\t", "b">>,
      <<"G", "E", "T", " ", "a", " ", "b">>,
      <<"G", "E", "T", " ", "/", "\n">>,
      <<"G", "E", "T", " ">>,
      <<"G", "E", "T", " ", "a", RawByte>>,
      <<"P", "U", "T", " ", "a">>,
      <<" ", "G", "E", "T", " ", "a">>,
      <<"G", "E", "T", "a">>,
      <<"G", "E", "T", "\t", "a">>,
      <<"\n">>,
      <<>> }

Jobs == {Str(l) : l \in RequestLines} \cup {NoneData}

RECURSIVE SeqsUpTo(_, _)
SeqsUpTo(S, n) ==
    IF n = 0 THEN {<<>>}
    ELSE LET shorter == SeqsUpTo(S, n - 1)
         IN  shorter \cup {Append(s, c) : s \in shorter, c \in S}

BodyChars == {" ", "\t", "a", "/"}
Commands == {GET, <<"g", "e", "t">>, <<"P", "U", "T">>}
GenLines == {c \o b : c \in Commands, b \in SeqsUpTo(BodyChars, MaxBody)}
GenJobs == {Str(l) : l \in GenLines}

---------------------------------------------------------------------------
(* GeoServer *)

\* GeoServer.__init__: self.geoip is set unless GeoIP() raised GeoIPException
GeoServerInit(open) == IF open = "handle" THEN "handle" ELSE "unset"

\* GeoServer.checkConnection
checkConnectionUncaught(g, cc) ==
    IF g = "unset"
    THEN Frame(Raise("AttributeError", NoGeoipAttr), <<>>, <<>>)
    ELSE LET be == <<Call("country_code", MozillaOrg, cc)>>
         IN  IF cc.kind = "raise" THEN Frame(StatusLine(Error500), <<>>, be)
             ELSE IF cc.kind = "code" /\ cc.code = US
                  THEN Frame(StatusLine(OK200), <<>>, be)
                  ELSE Frame(NoneValue, <<>>, be)

checkConnection(g, cc) ==
    IF g = "unset"
    THEN \* self.geoip raises AttributeError inside the try
         Frame(StatusLine(Error500), <<>>, <<>>)
    ELSE LET be == <<Call("country_code", MozillaOrg, cc)>>
         IN  IF cc.kind = "raise" THEN Frame(StatusLine(Error500), <<>>, be)
             ELSE IF cc.kind = "code" /\ cc.code = US
                  THEN Frame(StatusLine(OK200), <<>>, be)
                  ELSE \* no return statement is reached
                       Frame(NoneValue, <<>>, be)

\* process, lines 72-82: the timer and the counters
StartTimerNever(sd) == <<>>

StartTimer(sd) == IF sd THEN <<"timer.start">> ELSE <<>>

\* process, line 90: addr = items[1].strip().replace('/', '')
ParseAddrNoStrip(items) == Replace(items[2], "/")

ParseAddr(items) == Replace(Strip(items[2]), "/")

\* process, lines 86-87
RejectRequest(sd) == Frame(_error(InvalidRequest), <<>>, <<>>)

\* process, lines 91-92
RejectCommandCounted(sd) ==
    Frame(_error(InvalidCommand), Incr(sd, "failures"), <<>>)

RejectCommand(sd) == Frame(_error(InvalidCommand), <<>>, <<>>)

\* process, lines 104-106: except Exception as e
ExceptUncounted(sd, ev, be, msg) ==
    Frame(_error(UnknownException(msg)), ev, be)

Except(sd, ev, be, msg) ==
    Frame(_error(UnknownException(msg)), ev \o Incr(sd, "failures"), be)

\* process, lines 98-100: reply is None
NoDataAsException(sd, ev, be) ==
    Frame(_error(UnknownException("None")), ev \o Incr(sd, "failures"), be)

NoData(sd, ev, be) ==
    Frame(_error(NoInformation), ev \o Incr(sd, "failures"), be)

\* dict.update({'addr': addr})
Update(map, addr) ==
    [k \in DOMAIN map \cup {"addr"} |-> IF k = "addr" THEN addr ELSE map[k]]

\* process, lines 101-103, inside the try of line 95
Success(sd, ev, be, map, addr) ==
    LET ev2 == ev \o Incr(sd, "successes")
        r == _return("success", Update(map, addr))
    IN  IF r.kind = "raise"
        THEN Except(sd, ev2, be, r.msg)
        ELSE Frame(r, ev2, be)

\* process, lines 95-106
Lookup(g, sd, addr, city) ==
    LET ev == Incr(sd, "requests")
    IN  IF g = "unset"
        THEN \* self.geoip raises AttributeError
             Except(sd, ev, <<>>, NoGeoipAttr)
        ELSE LET be == <<Call("city", addr, city)>>
             IN  CASE city.kind = "raise" -> Except(sd, ev, be, city.msg)
                   [] city.kind = "none" -> NoData(sd, ev, be)
                   [] city.kind = "map" -> Success(sd, ev, be, city.map, addr)

\* process, lines 84-106: the body of the outer try
Body(g, sd, data, cc, city) ==
    IF data.type # "str"
    THEN \* line.strip() on a value that is not a string
         Frame(Raise("AttributeError", NoStripAttr), <<>>, <<>>)
    ELSE LET line == data.chars
         IN  IF Monitor = Strip(line) THEN checkConnection(g, cc)
             ELSE IF ~Contains(line, " ") THEN RejectRequest(sd)
             ELSE LET items == Split(line, " ")
                      cmd == items[1]
                      addr == ParseAddr(items)
                  IN  IF Upper(cmd) # GET THEN RejectCommand(sd)
                      ELSE Lookup(g, sd, addr, city)

\* process, lines 107-109: finally: if timer: timer.stop('Request')
FinallyOnReturnOnly(started, f) ==
    IF started # <<>> /\ f.result.kind # "raise"
    THEN [f EXCEPT !.events = started \o @ \o <<"timer.stop">>]
    ELSE [f EXCEPT !.events = started \o @]

Finally(started, f) ==
    IF started # <<>>
    THEN [f EXCEPT !.events = started \o @ \o <<"timer.stop">>]
    ELSE [f EXCEPT !.events = started \o @]

\* GeoServer.process
process(g, sd, data, cc, city) ==
    Finally(StartTimer(sd), Body(g, sd, data, cc, city))

\* occurrences of an event in a call's events
Count(ev, name) == Cardinality({i \in DOMAIN ev : ev[i] = name})

---------------------------------------------------------------------------
(* The state machine *)

Counters == [requests |-> requests, successes |-> successes,
             failures |-> failures, timerStarts |-> timerStarts,
             timerStops |-> timerStops]

\* geo = GeoServer(), before any request
Init ==
    /\ \E open \in OpenOutcomes : geoip = GeoServerInit(open)
    /\ statsd \in BOOLEAN
    /\ requests = 0
    /\ successes = 0
    /\ failures = 0
    /\ timerStarts = 0
    /\ timerStops = 0
    /\ calls = 0
    /\ job = NoneData
    /\ result = NoneValue
    /\ events = <<>>
    /\ backend = <<>>
    /\ before = [requests |-> 0, successes |-> 0, failures |-> 0,
                 timerStarts |-> 0, timerStops |-> 0]

\* lookup(data): one call of geo.process
Process(data, cc, city) ==
    LET f == process(geoip, statsd, data, cc, city)
    IN  /\ job' = data
        /\ result' = f.result
        /\ events' = f.events
        /\ backend' = f.backend
        /\ before' = Counters
        /\ requests' = requests + Count(f.events, "requests")
        /\ successes' = successes + Count(f.events, "successes")
        /\ failures' = failures + Count(f.events, "failures")
        /\ timerStarts' = timerStarts + Count(f.events, "timer.start")
        /\ timerStops' = timerStops + Count(f.events, "timer.stop")
        /\ calls' = calls + 1
        /\ UNCHANGED <<geoip, statsd>>

Lookups ==
    /\ calls < MaxCalls
    /\ \E data \in Jobs, a \in Answers :
           Process(data, a.country_code, a.city)

Next == Lookups

Spec == Init /\ [][Next]_vars

\* a single request, over every short line
LookupLine ==
    /\ calls = 0
    /\ \E data \in GenJobs, a \in Answers :
           Process(data, a.country_code, a.city)

NextLines == LookupLine

SpecLines == Init /\ [][NextLines]_vars

---------------------------------------------------------------------------
(* The last call, as the caller saw it *)

Called == calls > 0
IsLine == Called /\ job.type = "str"
line == job.chars

\* the trimmed line is the token monitor
IsMonitor == IsLine /\ Strip(line) = Monitor

\* the text before the first space
CommandOf(l) == SubSeq(l, 1, IndexOf(l, " ") - 1)

\* the line has no space separator
LacksSpace == IsLine /\ ~IsMonitor /\ ~Contains(line, " ")

\* the line has a command and it is not GET
BadCommand == /\ IsLine /\ ~IsMonitor /\ Contains(line, " ")
              /\ Upper(CommandOf(line)) # GET

\* the line passed validation
Validated == /\ IsLine /\ ~IsMonitor /\ Contains(line, " ")
             /\ Upper(CommandOf(line)) = GET

\* increments of the call
Delta(name) == Counters[name] - before[name]

IsError(r, msg) == /\ r.kind = "json"
                   /\ DOMAIN r.json = {"error"}
                   /\ r.json["error"] = msg
                   /\ r.eol = "\n"

IsSuccess(r) == r.kind = "json" /\ DOMAIN r.json = {"success"} /\ r.eol = "\n"

\* the backend city lookup was invoked and answered with this kind
CityAnswered(k) == /\ Validated
                   /\ Len(backend) = 1
                   /\ backend[1].fn = "city"
                   /\ backend[1].out.kind = k

\* the text between the first and the second space of the line (to the end
\* of the line when there is one space only), trimmed, without '/'
AddrField(l) ==
    LET rest == SubSeq(l, IndexOf(l, " ") + 1, Len(l))
        j == IF Contains(rest, " ") THEN IndexOf(rest, " ") ELSE Len(rest) + 1
    IN  SelectSeq(Strip(SubSeq(rest, 1, j - 1)), LAMBDA c : c # "/")

\* the first whitespace-delimited token of the text after the first space,
\* without '/'
FirstTokenAddr(l) ==
    LET rest == LStrip(SubSeq(l, IndexOf(l, " ") + 1, Len(l)))
        ws == {i \in DOMAIN rest : rest[i] \in Whitespace}
        k == IF ws = {} THEN Len(rest) + 1
             ELSE CHOOSE i \in ws : \A m \in ws : i <= m
    IN  SelectSeq(SubSeq(rest, 1, k - 1), LAMBDA c : c # "/")

---------------------------------------------------------------------------
(* Claims *)

\* C1: a monitor request is answered with "200 OK\n" or "500 Error\n",
\* whatever the country-code lookup does: never a JSON line, never no
\* value, never an exception.
C1_MonitorReplies ==
    IsMonitor => result.kind = "status" /\ result.text \in {OK200, Error500}

C3_DegradedReplies ==
    (geoip = "unset" /\ IsLine) =>
        /\ result.kind \in {"json", "status"}
        /\ Validated => IsError(result, UnknownException(NoGeoipAttr))
        /\ IsMonitor => result = StatusLine(Error500)
        /\ backend = <<>>

C3_Witness ==
    /\ geoip = "unset" /\ IsMonitor /\ calls >= 2
    /\ result = StatusLine(Error500)
    /\ failures >= 1

\* C4: with a metrics sink, a validated request increments requests once,
\* before the lookup, and then exactly one of successes and failures once;
\* so requests = successes + failures after any sequence of calls.
C4_CountersBalanced ==
    statsd =>
        /\ requests = successes + failures
        /\ Validated =>
              /\ Delta("requests") = 1
              /\ Delta("successes") + Delta("failures") = 1
              /\ events[2] = "requests"

\* C5: when the city lookup of a GET request returns a mapping M, the reply
\* is the success line carrying M with addr set to the sanitized address.
C5_SuccessReply ==
    (CityAnswered("map") /\ ValidUtf8(line)) =>
        /\ IsSuccess(result)
        /\ result.json["success"] = Update(backend[1].out.map, AddrField(line))

\* C6: when the city lookup returns None the reply is exactly the error
\* "No information for site", failures is incremented once and successes is
\* not; the reply is not an Unknown Exception reply.
C6_NoData ==
    CityAnswered("none") =>
        /\ IsError(result, "No information for site")
        /\ \A m \in ExcMessages \cup {"None", NoGeoipAttr, DecodeError} :
               ~IsError(result, UnknownException(m))
        /\ statsd => Delta("failures") = 1 /\ Delta("successes") = 0

C6_Witness ==
    /\ CityAnswered("none") /\ statsd
    /\ IsError(result, NoInformation)
    /\ failures = calls /\ calls >= 2

C8_TimerPaired ==
    /\ timerStarts = timerStops
    /\ (statsd /\ Called) =>
          /\ Delta("timerStarts") = 1
          /\ Delta("timerStops") = 1
          /\ events[1] = "timer.start"
          /\ events[Len(events)] = "timer.stop"
    /\ ~statsd => timerStarts = 0

C8_Witness ==
    /\ statsd /\ Called /\ result.kind = "raise"
    /\ timerStops >= 2 /\ Delta("timerStops") = 1

\* C9 (as stated): a monitor request touches no instrumentation: the timer
\* is neither started nor stopped and no counter is incremented.
C9_MonitorUntimed ==
    IsMonitor => events = <<>>

\* C9 (amended): a monitor request increments no counter; with a metrics
\* sink its timer is started once and stopped once around the health check.
C9_MonitorUncounted ==
    IsMonitor =>
        /\ Delta("requests") = 0
        /\ Delta("successes") = 0
        /\ Delta("failures") = 0
        /\ events = IF statsd THEN <<"timer.start", "timer.stop">> ELSE <<>>

C9_Witness ==
    /\ IsMonitor /\ statsd /\ geoip = "handle"
    /\ result = StatusLine(OK200)
    /\ timerStarts >= 1

\* C10 (as stated): the address given to the city lookup and echoed under
\* addr is the first whitespace-delimited token after the first space,
\* without '/'.
C10_FirstToken ==
    (Validated /\ Len(backend) = 1) =>
        /\ backend[1].arg = FirstTokenAddr(line)
        /\ IsSuccess(result) => result.json["success"]["addr"] = FirstTokenAddr(line)

\* C10 (amended): the address given to the city lookup and echoed under
\* addr is the text between the first and the second space of the line,
\* trimmed of surrounding whitespace, without '/'.
C10_SecondField ==
    (Validated /\ Len(backend) = 1) =>
        /\ backend[1].arg = AddrField(line)
        /\ IsSuccess(result) => result.json["success"]["addr"] = AddrField(line)

C10_Witness ==
    /\ Validated /\ IsSuccess(result)
    /\ line = <<"G", "E", "T", " ", "\t", "/", "a">>
    /\ backend[1].arg = <<"a">>
    /\ result.json["success"]["addr"] = <<"a">>

====
